---- MODULE Spec2Model ----
(***************************************************************************)
(* The message reducer of the COSMIC "connect" applet                      *)
(* (src/src/app.rs, CosmicConnect::update) as a state machine.             *)
(*                                                                         *)
(* One action per Message variant.  An action is the whole handler: the    *)
(* device/client sends, the config save and the returned Task are recorded *)
(* in `effects`, the list of effects the last update produced.             *)
(* `last` names the last message applied, `seen` the identities a          *)
(* DeviceUpdate has carried so far; both are history variables.            *)
(*                                                                         *)
(* Option<T> is a sequence of length at most one: None is <<>>, Some(x) is *)
(* <<x>>.  A DeviceId is modelled by its `id` string, the HashMap key.     *)
(***************************************************************************)
EXTENDS Integers, Sequences, FiniteSets, TLC

\* ------------------------------------------------------------- bounds
\* identities the backend can report
Devices == {"dev-1", "dev-2"}
\* battery charges a snapshot can carry: two values tell one snapshot of a
\* device from the next
Charges == {20, 80}
\* deferred UpdateState tasks in flight at once
MaxPending == 1
\* `last_connections` values a stored config can hold; the applet never looks
\* inside the set, so two sample values are enough to see it change
LastConnections == { {}, {"dev-1"} }
\* window ids Id::unique() hands out in one run
MaxPopups == 2
\* deferred UpdateState tasks in flight at once under SpecOrder
MaxInFlight == 2

\* ------------------------------------------------------------- data
None == << >>
Some(x) == << x >>

Option(S) == {None} \cup { Some(x) : x \in S }

\* kdeconnect::device::PairingState: the applet only tests `== Paired`, every
\* other value of the enum behaves as "Unpaired"
PairingState == {"Unpaired", "Paired"}

\* kdeconnect::device::DeviceState as the applet reads it
DeviceState ==
    [device_id : Devices, battery : Charges, pairing_state : PairingState]

\* config.rs: ConnectConfig { last_connections, paired }.  app.rs, the only
\* writer of `paired`, stores Some(device) or None in it, so a value of the
\* field is a list of at most one identity
ConnectConfig ==
    [last_connections : LastConnections, paired : Option(Devices)]

\* a message or effect that names no device / no window
NoDev == "-"
NoWin == None

Msg(type, dev, win) == [type |-> type, dev |-> dev, win |-> win]

Effect(kind, dev, win, action) ==
    [kind |-> kind, dev |-> dev, win |-> win, action |-> action]

DeviceSend(dev, action) == Effect("device_send", dev, NoWin, action)

VARIABLES
    popup,                            \* Option<Id>
    config,                           \* ConnectConfig
    kdeconnect,                       \* Option<KdeConnect>
    kdeconnect_client_action_sender,  \* Option<UnboundedSender<ClientAction>>
    connections,                      \* HashMap<String, DeviceState>
    next_id,                          \* the counter behind Id::unique()
    tasks,                            \* Task::done(UpdateState(..)) not yet delivered, FIFO
    seen,                             \* history: identities carried by a DeviceUpdate
    last,                             \* history: the last message applied
    effects,                          \* effects of the last update
    crashed                           \* the update panicked (unwrap on None)

vars == << popup, config, kdeconnect, kdeconnect_client_action_sender,
           connections, next_id, tasks, seen, last, effects, crashed >>

\* ------------------------------------------------------------- helpers

\* is_paired answered from the stored pairing instead of the session
is_paired_from_config(device_id) ==
    /\ device_id \in DOMAIN connections
    /\ config.paired = Some(device_id)

\* CosmicConnect::is_paired
is_paired(device_id) ==
    /\ device_id \in DOMAIN connections
    /\ connections[device_id].pairing_state = "Paired"

\* HashMap::insert(state.device_id.id, state)
Insert(map, state) ==
    [d \in DOMAIN map \cup {state.device_id} |->
        IF d = state.device_id THEN state ELSE map[d]]

\* HashMap::remove(id)
Remove(map, id) == [d \in DOMAIN map \ {id} |-> map[d]]

\* connections.get(id).iter().for_each(|state| state.send(action))
SendTo(id, action) ==
    IF id \in DOMAIN connections THEN << DeviceSend(id, action) >> ELSE << >>

\* the setter the CosmicConfigEntry derive generates for `paired`: if the
\* value differs it is stored in memory and written to the store; a failed
\* write is returned as Err and logged by the caller
set_paired(cfg, value, save_ok) ==
    IF cfg.paired # value
    THEN [config  |-> [cfg EXCEPT !.paired = value],
          effects |-> IF save_ok
                      THEN << Effect("save", NoDev, NoWin, "paired") >>
                      ELSE << Effect("warn", NoDev, NoWin, "failed to save config") >>]
    ELSE [config |-> cfg, effects |-> << >>]

\* view_window: one row per session, only while the popup exists
Rows == IF popup = None THEN {} ELSE DOMAIN connections

\* view_window: the row's third button is "UnPair" iff is_paired, else "Pair"
PairButton(d) == IF is_paired(d) THEN "UnPair" ELSE "Pair"

\* ------------------------------------------------------------- Init

\* CosmicConnect::init
Init ==
    /\ popup = None
    /\ config \in ConnectConfig
    /\ kdeconnect = None
    /\ kdeconnect_client_action_sender = None
    /\ connections = << >>
    /\ next_id = 1
    /\ tasks = << >>
    /\ seen = {}
    /\ last = Msg("init", NoDev, NoWin)
    /\ effects = << >>
    /\ crashed = FALSE

\* ------------------------------------------------------------- actions

\* TogglePopup with the tracked id read but not taken: the popup is destroyed
\* and still tracked
TogglePopupNoTake ==
    /\ ~crashed
    /\ IF popup # None
       THEN /\ popup' = popup
            /\ effects' = << Effect("destroy_popup", NoDev, popup, "") >>
            /\ last' = Msg("TogglePopup", NoDev, popup)
            /\ UNCHANGED next_id
       ELSE /\ next_id <= MaxPopups
            /\ popup' = Some(next_id)
            /\ next_id' = next_id + 1
            /\ effects' = << Effect("get_popup", NoDev, Some(next_id), "") >>
            /\ last' = Msg("TogglePopup", NoDev, Some(next_id))
    /\ UNCHANGED << config, kdeconnect, kdeconnect_client_action_sender,
                    connections, tasks, seen, crashed >>

\* Message::TogglePopup
TogglePopup ==
    /\ ~crashed
    /\ IF popup # None
       THEN /\ popup' = None
            /\ effects' = << Effect("destroy_popup", NoDev, popup, "") >>
            /\ last' = Msg("TogglePopup", NoDev, popup)
            /\ UNCHANGED next_id
       ELSE /\ next_id <= MaxPopups
            /\ popup' = Some(next_id)
            /\ next_id' = next_id + 1
            /\ effects' = << Effect("get_popup", NoDev, Some(next_id), "") >>
            /\ last' = Msg("TogglePopup", NoDev, Some(next_id))
    /\ UNCHANGED << config, kdeconnect, kdeconnect_client_action_sender,
                    connections, tasks, seen, crashed >>

\* PopupClosed without the comparison against the tracked id
PopupClosedAny(id) ==
    /\ ~crashed
    /\ popup' = None
    /\ effects' = << >>
    /\ last' = Msg("PopupClosed", NoDev, Some(id))
    /\ UNCHANGED << config, kdeconnect, kdeconnect_client_action_sender,
                    connections, next_id, tasks, seen, crashed >>

\* Message::PopupClosed(id), sent by on_close_requested for a window id
PopupClosed(id) ==
    /\ ~crashed
    /\ popup' = IF popup = Some(id) THEN None ELSE popup
    /\ effects' = << >>
    /\ last' = Msg("PopupClosed", NoDev, Some(id))
    /\ UNCHANGED << config, kdeconnect, kdeconnect_client_action_sender,
                    connections, next_id, tasks, seen, crashed >>

\* UpdateConfig that merges: it takes the new last_connections and keeps the
\* pairing it had
UpdateConfigKeepsPaired(c) ==
    /\ ~crashed
    /\ config' = [c EXCEPT !.paired = config.paired]
    /\ effects' = << >>
    /\ last' = Msg("UpdateConfig", NoDev, NoWin)
    /\ UNCHANGED << popup, kdeconnect, kdeconnect_client_action_sender,
                    connections, next_id, tasks, seen, crashed >>

\* Message::UpdateConfig(config), sent by watch_config
UpdateConfig(c) ==
    /\ ~crashed
    /\ config' = c
    /\ effects' = << >>
    /\ last' = Msg("UpdateConfig", NoDev, NoWin)
    /\ UNCHANGED << popup, kdeconnect, kdeconnect_client_action_sender,
                    connections, next_id, tasks, seen, crashed >>

\* Message::KdeConnect(Connected((client, sender))): the subscription sends it
\* once, before it forwards any device update
KdeConnect ==
    /\ ~crashed
    /\ kdeconnect_client_action_sender = None
    /\ kdeconnect' = Some("client")
    /\ kdeconnect_client_action_sender' = Some("sender")
    /\ effects' = << >>
    /\ last' = Msg("KdeConnect", NoDev, NoWin)
    /\ UNCHANGED << popup, config, connections, next_id, tasks, seen, crashed >>

\* Message::DeviceUpdate(DeviceResponse::Refresh(state))
DeviceUpdateRefresh(state) ==
    /\ ~crashed
    /\ kdeconnect_client_action_sender # None
    /\ tasks' = Append(tasks, state)
    /\ seen' = seen \cup {state.device_id}
    /\ effects' = << Effect("task", state.device_id, NoWin, "UpdateState") >>
    /\ last' = Msg("DeviceUpdate", state.device_id, NoWin)
    /\ UNCHANGED << popup, config, kdeconnect, kdeconnect_client_action_sender,
                    connections, next_id, crashed >>

\* Message::DeviceUpdate(DeviceResponse::SyncClipboard(content))
DeviceUpdateSyncClipboard ==
    /\ ~crashed
    /\ kdeconnect_client_action_sender # None
    /\ effects' = << Effect("clipboard_write", NoDev, NoWin, "") >>
    /\ last' = Msg("DeviceUpdate", NoDev, NoWin)
    /\ UNCHANGED << popup, config, kdeconnect, kdeconnect_client_action_sender,
                    connections, next_id, tasks, seen, crashed >>

\* DisconnectDevice that also forgets the pairing
DisconnectDeviceUnpairs(device) ==
    /\ ~crashed
    /\ device.device_id \in Rows
    /\ device.device_id \in DOMAIN connections
    /\ connections[device.device_id] = device
    /\ effects' = << DeviceSend(device.device_id, "Disconnect") >>
    /\ connections' = Remove(connections, device.device_id)
    /\ kdeconnect' = None
    /\ config' = [config EXCEPT !.paired = None]
    /\ last' = Msg("DisconnectDevice", device.device_id, NoWin)
    /\ UNCHANGED << popup, kdeconnect_client_action_sender,
                    next_id, tasks, seen, crashed >>

\* DisconnectDevice that clears the whole map instead of one key
DisconnectDeviceClearsAll(device) ==
    /\ ~crashed
    /\ device.device_id \in Rows
    /\ device.device_id \in DOMAIN connections
    /\ connections[device.device_id] = device
    /\ effects' = << DeviceSend(device.device_id, "Disconnect") >>
    /\ connections' = << >>
    /\ kdeconnect' = None
    /\ last' = Msg("DisconnectDevice", device.device_id, NoWin)
    /\ UNCHANGED << popup, config, kdeconnect_client_action_sender,
                    next_id, tasks, seen, crashed >>

\* Message::DisconnectDevice(device), from a row's "Disconnect" button
DisconnectDevice(device) ==
    /\ ~crashed
    /\ device.device_id \in Rows
    /\ device.device_id \in DOMAIN connections
    /\ connections[device.device_id] = device
    /\ effects' = << DeviceSend(device.device_id, "Disconnect") >>
    /\ connections' = Remove(connections, device.device_id)
    /\ kdeconnect' = None
    /\ last' = Msg("DisconnectDevice", device.device_id, NoWin)
    /\ UNCHANGED << popup, config, kdeconnect_client_action_sender,
                    next_id, tasks, seen, crashed >>

\* Broadcast with `.unwrap()` on the send instead of unwrap_or_else: a failed
\* send panics
BroadcastUnwrap ==
    /\ ~crashed
    /\ popup # None
    /\ IF kdeconnect_client_action_sender # None
       THEN \E send_ok \in BOOLEAN :
              /\ effects' = IF send_ok
                            THEN << Effect("client_send", NoDev, NoWin, "Broadcast") >>
                            ELSE << Effect("panic", NoDev, NoWin, "unwrap on Err") >>
              /\ crashed' = ~send_ok
       ELSE effects' = << >> /\ UNCHANGED crashed
    /\ last' = Msg("Broadcast", NoDev, NoWin)
    /\ UNCHANGED << popup, config, kdeconnect, kdeconnect_client_action_sender,
                    connections, next_id, tasks, seen >>

\* Message::Broadcast, from the popup's "Broadcast" button
Broadcast ==
    /\ ~crashed
    /\ popup # None
    /\ IF kdeconnect_client_action_sender # None
       THEN \E send_ok \in BOOLEAN :
              effects' = IF send_ok
                         THEN << Effect("client_send", NoDev, NoWin, "Broadcast") >>
                         ELSE << Effect("warn", NoDev, NoWin,
                                        "failed to send broadcast action") >>
       ELSE effects' = << >>
    /\ last' = Msg("Broadcast", NoDev, NoWin)
    /\ UNCHANGED << popup, config, kdeconnect, kdeconnect_client_action_sender,
                    connections, next_id, tasks, seen, crashed >>

\* UpdateState delivered newest first
UpdateStateNewestFirst ==
    /\ ~crashed
    /\ tasks # << >>
    /\ connections' = Insert(connections, tasks[Len(tasks)])
    /\ tasks' = SubSeq(tasks, 1, Len(tasks) - 1)
    /\ effects' = << >>
    /\ last' = Msg("UpdateState", tasks[Len(tasks)].device_id, NoWin)
    /\ UNCHANGED << popup, config, kdeconnect, kdeconnect_client_action_sender,
                    next_id, seen, crashed >>

\* Message::UpdateState(state), the message a Refresh deferred
UpdateState ==
    /\ ~crashed
    /\ tasks # << >>
    /\ connections' = Insert(connections, Head(tasks))
    /\ tasks' = Tail(tasks)
    /\ effects' = << >>
    /\ last' = Msg("UpdateState", Head(tasks).device_id, NoWin)
    /\ UNCHANGED << popup, config, kdeconnect, kdeconnect_client_action_sender,
                    next_id, seen, crashed >>

\* PairDevice for an identity no row shows
PairDeviceUnlisted(device) ==
    /\ ~crashed
    /\ popup # None
    /\ PairButton(device) = "Pair"
    /\ last' = Msg("PairDevice", device, NoWin)
    /\ \E handler_failed \in BOOLEAN :
         IF ~handler_failed
         THEN \E save_ok \in BOOLEAN :
                LET r == set_paired(config, Some(device), save_ok) IN
                /\ config' = r.config
                /\ effects' = SendTo(device, "Pair") \o r.effects
                /\ UNCHANGED crashed
         ELSE /\ crashed' = TRUE
              /\ effects' = SendTo(device, "Pair")
                              \o << Effect("panic", NoDev, NoWin, "unwrap on None") >>
              /\ UNCHANGED config
    /\ UNCHANGED << popup, kdeconnect, kdeconnect_client_action_sender,
                    connections, next_id, tasks, seen >>

\* PairDevice that skips the backend call when the identity is already stored
PairDeviceOnce(device) ==
    /\ ~crashed
    /\ device \in Rows
    /\ PairButton(device) = "Pair"
    /\ last' = Msg("PairDevice", device, NoWin)
    /\ LET sends == IF config.paired = Some(device)
                    THEN << >> ELSE SendTo(device, "Pair") IN
       \E handler_failed \in BOOLEAN :
         IF ~handler_failed
         THEN \E save_ok \in BOOLEAN :
                LET r == set_paired(config, Some(device), save_ok) IN
                /\ config' = r.config
                /\ effects' = sends \o r.effects
                /\ UNCHANGED crashed
         ELSE /\ crashed' = TRUE
              /\ effects' = sends
                              \o << Effect("panic", NoDev, NoWin, "unwrap on None") >>
              /\ UNCHANGED config
    /\ UNCHANGED << popup, kdeconnect, kdeconnect_client_action_sender,
                    connections, next_id, tasks, seen >>

\* PairDevice that marks the session Paired itself instead of waiting for the
\* backend's next Refresh
PairDeviceOptimistic(device) ==
    /\ ~crashed
    /\ device \in Rows
    /\ PairButton(device) = "Pair"
    /\ last' = Msg("PairDevice", device, NoWin)
    /\ connections' = [connections EXCEPT ![device].pairing_state = "Paired"]
    /\ \E handler_failed \in BOOLEAN :
         IF ~handler_failed
         THEN \E save_ok \in BOOLEAN :
                LET r == set_paired(config, Some(device), save_ok) IN
                /\ config' = r.config
                /\ effects' = SendTo(device, "Pair") \o r.effects
                /\ UNCHANGED crashed
         ELSE /\ crashed' = TRUE
              /\ effects' = SendTo(device, "Pair")
                              \o << Effect("panic", NoDev, NoWin, "unwrap on None") >>
              /\ UNCHANGED config
    /\ UNCHANGED << popup, kdeconnect, kdeconnect_client_action_sender,
                    next_id, tasks, seen >>

\* Message::PairDevice(device), from a row's "Pair" button
PairDevice(device) ==
    /\ ~crashed
    /\ device \in Rows
    /\ PairButton(device) = "Pair"
    /\ last' = Msg("PairDevice", device, NoWin)
    /\ \E handler_failed \in BOOLEAN :
         IF ~handler_failed
         THEN \E save_ok \in BOOLEAN :
                LET r == set_paired(config, Some(device), save_ok) IN
                /\ config' = r.config
                /\ effects' = SendTo(device, "Pair") \o r.effects
                /\ UNCHANGED crashed
         ELSE /\ crashed' = TRUE
              /\ effects' = SendTo(device, "Pair")
                              \o << Effect("panic", NoDev, NoWin, "unwrap on None") >>
              /\ UNCHANGED config
    /\ UNCHANGED << popup, kdeconnect, kdeconnect_client_action_sender,
                    connections, next_id, tasks, seen >>

\* UnPairDevice without the final connections.remove
UnPairDeviceKeepsSession(device) ==
    /\ ~crashed
    /\ device \in Rows
    /\ PairButton(device) = "UnPair"
    /\ last' = Msg("UnPairDevice", device, NoWin)
    /\ \E handler_failed \in BOOLEAN :
         IF ~handler_failed
         THEN \E save_ok \in BOOLEAN :
                LET r == set_paired(config, None, save_ok) IN
                /\ config' = r.config
                /\ effects' = SendTo(device, "UnPair") \o r.effects
                /\ UNCHANGED crashed
         ELSE /\ crashed' = TRUE
              /\ effects' = SendTo(device, "UnPair")
                              \o << Effect("panic", NoDev, NoWin, "unwrap on None") >>
              /\ UNCHANGED config
    /\ UNCHANGED << popup, kdeconnect, kdeconnect_client_action_sender,
                    connections, next_id, tasks, seen >>

\* Message::UnPairDevice(device), from a row's "UnPair" button
UnPairDevice(device) ==
    /\ ~crashed
    /\ device \in Rows
    /\ PairButton(device) = "UnPair"
    /\ last' = Msg("UnPairDevice", device, NoWin)
    /\ \E handler_failed \in BOOLEAN :
         IF ~handler_failed
         THEN \E save_ok \in BOOLEAN :
                LET r == set_paired(config, None, save_ok) IN
                /\ config' = r.config
                /\ effects' = SendTo(device, "UnPair") \o r.effects
                /\ connections' = Remove(connections, device)
                /\ UNCHANGED crashed
         ELSE /\ crashed' = TRUE
              /\ effects' = SendTo(device, "UnPair")
                              \o << Effect("panic", NoDev, NoWin, "unwrap on None") >>
              /\ UNCHANGED << config, connections >>
    /\ UNCHANGED << popup, kdeconnect, kdeconnect_client_action_sender,
                    next_id, tasks, seen >>

\* Message::SendPing((id, msg)), from a row's "Send Ping" button
SendPing(id) ==
    /\ ~crashed
    /\ id \in Rows
    /\ effects' = SendTo(id, "Ping")
    /\ last' = Msg("SendPing", id, NoWin)
    /\ UNCHANGED << popup, config, kdeconnect, kdeconnect_client_action_sender,
                    connections, next_id, tasks, seen, crashed >>

Next ==
    \/ TogglePopup
    \/ \E id \in 1..MaxPopups : id < next_id /\ PopupClosed(id)
    \/ \E c \in ConnectConfig : UpdateConfig(c)
    \/ KdeConnect
    \/ \E state \in DeviceState :
         Len(tasks) < MaxPending /\ DeviceUpdateRefresh(state)
    \/ DeviceUpdateSyncClipboard
    \/ \E device \in DeviceState : DisconnectDevice(device)
    \/ Broadcast
    \/ UpdateState
    \/ \E device \in Devices : PairDevice(device)
    \/ \E device \in Devices : UnPairDevice(device)
    \/ \E id \in Devices : SendPing(id)

Spec == Init /\ [][Next]_vars

\* Up to MaxInFlight refreshes in flight, started from ConnectConfig::default()
\* (what config() returns when there is no config store).  The messages left
\* out (UpdateConfig, SendPing, Broadcast, SyncClipboard) neither read nor write
\* `popup`, `connections` or the deferred tasks.
InitOrder ==
    /\ Init
    /\ config = [last_connections |-> {}, paired |-> None]

NextOrder ==
    \/ TogglePopup
    \/ KdeConnect
    \/ \E state \in DeviceState :
         Len(tasks) < MaxInFlight /\ DeviceUpdateRefresh(state)
    \/ UpdateState
    \/ \E device \in DeviceState : DisconnectDevice(device)
    \/ \E device \in Devices : PairDevice(device)
    \/ \E device \in Devices : UnPairDevice(device)
    \/ \E id \in 1..MaxPopups : id < next_id /\ PopupClosed(id)

SpecOrder == InitOrder /\ [][NextOrder]_vars

\* ------------------------------------------------------------- claims

Sessions == DOMAIN connections

\* a step that takes an identity out of `connections`
RemovesSession == \E d \in Sessions : d \notin DOMAIN connections'

\* the identity `d` enters config.paired in this step
GainsPaired(d) == config'.paired = Some(d) /\ config.paired # Some(d)

\* the number of `action` sends to device `d` among the effects `es`
Sends(es, d, action) ==
    Cardinality({ i \in 1..Len(es) : es[i] = DeviceSend(d, action) })

\* C1: after every message the backend handle and the action sender are both
\* Some or both None.
C1_BackendAndSenderTogether ==
    (kdeconnect = None) <=> (kdeconnect_client_action_sender = None)

\* C2 (as claimed): no message adds to config.paired an identity that no
\* earlier DeviceUpdate carried.
C2_NoDanglingPaired ==
    [][\A d \in Devices : GainsPaired(d) => d \in seen]_vars

\* C2 (amended): a message other than UpdateConfig adds an identity to
\* config.paired only if an earlier DeviceUpdate carried it.
C2_PairRequestNeverDangling ==
    [][\A d \in Devices :
         (GainsPaired(d) /\ last'.type # "UpdateConfig") => d \in seen]_vars

\* C2 witness: a PairDevice has just stored an identity that was not stored.
C2_Witness ==
    /\ last.type = "PairDevice"
    /\ config.paired = Some(last.dev)
    /\ \E i \in 1..Len(effects) : effects[i].kind = "save"
    /\ last.dev \in seen

C4_DisconnectRemovesExactlyOne ==
    [][last'.type = "DisconnectDevice" =>
         /\ last'.dev \in Sessions
         /\ DOMAIN connections' = Sessions \ {last'.dev}
         /\ \A e \in DOMAIN connections' : connections'[e] = connections[e]]_vars

\* C4 witness: a DisconnectDevice has removed its session and another session
\* is still there.
C4_Witness ==
    /\ last.type = "DisconnectDevice"
    /\ last.dev \notin Sessions
    /\ Sessions # {}

\* a live session says Paired while config.paired does not hold its identity
PairedNotStored(d) ==
    /\ d \in Sessions
    /\ connections[d].pairing_state = "Paired"
    /\ config.paired # Some(d)

\* C5: a session that is Paired and missing from config.paired does not stay
\* so over two consecutive post-message states.
C5_PairedIsPersisted ==
    [][\A d \in Devices : ~(PairedNotStored(d) /\ PairedNotStored(d)')]_vars

\* C6: PairDevice(d) applied right after PairDevice(d) leaves d's
\* pairing_state and d's membership in config.paired as the first application
\* left them, and each of the two applications sends Pair to d exactly once.
C6_PairTwiceIdempotent ==
    [][\A d \in Devices :
         (last = Msg("PairDevice", d, NoWin) /\ last' = Msg("PairDevice", d, NoWin))
         => /\ d \in Sessions /\ d \in DOMAIN connections'
            /\ connections'[d].pairing_state = connections[d].pairing_state
            /\ (config'.paired = Some(d)) = (config.paired = Some(d))
            /\ Sends(effects, d, "Pair") = 1
            /\ Sends(effects', d, "Pair") = 1]_vars

\* C6 witness: a PairDevice for an identity that was already stored has been
\* applied: it sent Pair and saved nothing.
C6_Witness ==
    /\ last.type = "PairDevice"
    /\ ~crashed
    /\ config.paired = Some(last.dev)
    /\ effects = << DeviceSend(last.dev, "Pair") >>

\* the scenario of C7: config.paired is empty, the last message applied was the
\* UpdateState of d's DeviceUpdate, and this step applies PairDevice(d)
C7_Scenario(d) ==
    /\ config.paired = None
    /\ last = Msg("UpdateState", d, NoWin)
    /\ last' = Msg("PairDevice", d, NoWin)

C8_RepeatEventRefreshes ==
    [][\A d \in Devices :
         (last' = Msg("UpdateState", d, NoWin) /\ d \in Sessions)
         => /\ tasks # << >>
            /\ connections'[d] = Head(tasks)
            /\ d \in config'.last_connections]_vars

\* C9: a TogglePopup applied right after the TogglePopup that opened the popup
\* closes it and destroys the id the first one created; a destroy_popup never
\* names an id other than the one tracked, and at most one id is tracked.
C9_ToggleTwiceCloses ==
    [][/\ (last.type = "TogglePopup" /\ popup # None /\ last'.type = "TogglePopup")
          => /\ popup' = None
             /\ effects = << Effect("get_popup", NoDev, popup, "") >>
             /\ effects' = << Effect("destroy_popup", NoDev, popup, "") >>
       /\ \A i \in 1..Len(effects') :
            (last'.type = "TogglePopup" /\ effects'[i].kind = "destroy_popup")
            => (popup # None /\ effects'[i].win = popup)
       /\ Len(popup') <= 1]_vars

\* C9 witness: a TogglePopup has closed the popup and destroyed a window.
C9_Witness ==
    /\ last.type = "TogglePopup"
    /\ popup = None
    /\ effects = << Effect("destroy_popup", NoDev, last.win, "") >>
    /\ last.win # None

\* C10: PopupClosed(id) clears the tracked popup iff id is the tracked id, and
\* changes nothing else.
C10_ExternalCloseOnlyTracked ==
    [][last'.type = "PopupClosed" =>
         /\ popup' = (IF popup = last'.win THEN None ELSE popup)
         /\ effects' = << >>
         /\ UNCHANGED << config, kdeconnect, kdeconnect_client_action_sender,
                         connections, next_id, tasks, seen, crashed >>]_vars

\* C10 witness: a PopupClosed for the id of a window already destroyed has been
\* applied while a newer popup is tracked, and the newer popup is still tracked.
C10_Witness ==
    /\ last.type = "PopupClosed"
    /\ popup # None
    /\ last.win # popup
    /\ last.win # None

\* C10 witness, second case: a PopupClosed for the tracked id has closed it.
C10_WitnessClosed ==
    /\ last.type = "PopupClosed"
    /\ popup = None
    /\ last.win = Some(next_id - 1)

\* C11: no message is fatal: no reachable state is one in which the update
\* panicked.
C11_NoMessageIsFatal == ~crashed

C13_PairingTouchesOnlyItsDevice ==
    [][\A d \in Devices :
         (last' = Msg("PairDevice", d, NoWin) \/ last' = Msg("UnPairDevice", d, NoWin))
         => \A e \in Devices \ {d} :
              (config'.paired = Some(e)) = (config.paired = Some(e))]_vars

\* C14: PairDevice, UnPairDevice and SendPing send nothing to a device while
\* the backend handle is None.
C14_NoSendWithoutBackend ==
    [][(last'.type \in {"PairDevice", "UnPairDevice", "SendPing"} /\ kdeconnect = None)
         => \A i \in 1..Len(effects') : effects'[i].kind # "device_send"]_vars

\* C15: Broadcast sends ClientAction::Broadcast only if the action sender is
\* Some; a failed send is logged; the step changes nothing but the effects.
C15_BroadcastChangesNothing ==
    [][last'.type = "Broadcast" =>
         /\ IF kdeconnect_client_action_sender = None
            THEN effects' = << >>
            ELSE \/ effects' = << Effect("client_send", NoDev, NoWin, "Broadcast") >>
                 \/ /\ Len(effects') = 1
                    /\ effects'[1].kind = "warn"
         /\ UNCHANGED << popup, config, kdeconnect, kdeconnect_client_action_sender,
                         connections, next_id, tasks, seen, crashed >>]_vars

\* C15 witness: a Broadcast whose send failed has been applied and logged.
C15_Witness ==
    /\ last.type = "Broadcast"
    /\ ~crashed
    /\ kdeconnect_client_action_sender # None
    /\ Len(effects) = 1
    /\ effects[1].kind = "warn"

\* the sequence s without its k-th element
Without(s, k) == SubSeq(s, 1, k - 1) \o SubSeq(s, k + 1, Len(s))

C17_ConfigReloadedReplaces ==
    /\ [][last'.type = "UpdateConfig" =>
            /\ effects' = << >>
            /\ UNCHANGED << popup, kdeconnect, kdeconnect_client_action_sender,
                            connections, next_id, tasks, seen, crashed >>]_vars
    /\ [](~crashed => \A c \in ConnectConfig : ENABLED (UpdateConfig(c) /\ config' = c))

\* C17 witness: an UpdateConfig has been applied while sessions exist, and the
\* config it left holds a pairing for an identity without a session.
C17_Witness ==
    /\ last.type = "UpdateConfig"
    /\ Sessions # {}
    /\ \E d \in Devices \ Sessions : config.paired = Some(d)

\* C18: a session's row offers "UnPair" iff the session's pairing_state is
\* Paired and "Pair" otherwise, whatever config.paired holds; the UnPairDevice
\* message can be sent for exactly those sessions while the popup exists.
C18_ButtonFollowsPairingState ==
    \A d \in Sessions :
      /\ PairButton(d) = (IF connections[d].pairing_state = "Paired"
                          THEN "UnPair" ELSE "Pair")
      /\ (ENABLED UnPairDevice(d))
           = (~crashed /\ popup # None /\ connections[d].pairing_state = "Paired")
      /\ (ENABLED PairDevice(d))
           = (~crashed /\ popup # None /\ connections[d].pairing_state # "Paired")

\* C18 witness: the popup shows a Paired session that config.paired does not
\* hold and an Unpaired session that config.paired holds.
C18_Witness ==
    /\ popup # None
    /\ ~crashed
    /\ \E d, e \in Sessions :
         /\ connections[d].pairing_state = "Paired"
         /\ connections[e].pairing_state = "Unpaired"
         /\ config.paired = Some(e)

\* C19: once a DisconnectDevice or UnPairDevice has removed d's session, an
\* UpdateState deferred before the removal does not bring d back.
C19_StaleRefreshStaysOut ==
    [][\A d \in Devices :
         (/\ last.type \in {"DisconnectDevice", "UnPairDevice"}
          /\ last.dev = d
          /\ d \notin Sessions
          /\ last' = Msg("UpdateState", d, NoWin))
         => d \notin DOMAIN connections']_vars

====
